---------------------------- MODULE Spec2Model ----------------------------
(***************************************************************************)
(* pathjson: JsonifyFunctionBuilder (builders.py) builds a tree of         *)
(* LeafNode / ObjectNode / ArrayNode (_nodes.py) from flat JSONPath        *)
(* strings; the function returned by build() renders one row into a        *)
(* nested value.  Every node memoises its last presence check in a single  *)
(* slot (_last_checked_row, _intersected_last_time).                       *)
(*                                                                         *)
(* A JSONPath string is a sequence of one-character strings, so that the   *)
(* regular expression _JSONPATH is modelled by what it matches.            *)
(***************************************************************************)
EXTENDS Integers, Sequences, FiniteSets, TLC

VARIABLES
    leaf_jsonpaths,     \* JsonifyFunctionBuilder._leaf_jsonpaths
    pc,                 \* "get_model" | "built" | "failed"
    i,                  \* number of leaves _get_model has consumed
    nodes,              \* the heap: every Node object allocated so far
    internal_nodes,     \* JsonifyFunctionBuilder._internal_nodes
    model,              \* JsonifyFunctionBuilder._model (a node id, 0 = unset)
    error,              \* the exception that ended construction
    rows,               \* row reference -> the set of paths with a non-None cell
    last_row,           \* the row of the latest jsonifier call (0 = none yet)
    result,             \* what the latest jsonifier call returned or raised
    prev_row,           \* the row of the call before it (0 = none)
    prev_result,        \* what that call returned or raised
    threads,            \* concurrent calls: per thread its row, call stack,
                        \* the value last returned to it, and its result
    slot_writer         \* node -> the thread that last assigned its
                        \* _intersected_last_time (history, 0 = nobody)

vars == <<leaf_jsonpaths, pc, i, nodes, internal_nodes, model, error,
          rows, last_row, result, prev_row, prev_result, threads,
                   slot_writer>>

----------------------------------------------------------------------------
(* Bounds *)

MaxPaths == 3       \* longest leaf-path list handed to the builder
NumRows == 2        \* distinct row references

NoRow == 0          \* _last_checked_row = None
NoNode == 0

----------------------------------------------------------------------------
(* Characters and the path pool *)

Alpha == {"a","b","c","d","e","f","g","h","i","j","k","l","m","n","o","p",
          "q","r","s","t","u","v","w","x","y","z",
          "A","B","C","D","E","F","G","H","I","J","K","L","M","N","O","P",
          "Q","R","S","T","U","V","W","X","Y","Z"}
Digit == {"0","1","2","3","4","5","6","7","8","9"}
Word == Alpha \cup Digit \cup {"_"}

ROOT == <<"$">>

\* The strings the builder is fed: valid leaves (object fields, array
\* indices, nested and mixed), the bare root, and a leaf followed by a
\* line feed.
PathPool ==
    { <<"$", ".", "a">>,
      <<"$", ".", "b">>,
      <<"$", ".", "a", ".", "b">>,
      <<"$", ".", "a", "[", "0", "]">>,
      <<"$", ".", "a", "[", "1", "]">>,
      <<"$", ".", "a", "[", "2", "]">>,
      <<"$", "[", "0", "]", "[", "1", "]">>,
      <<"$">>,
      <<"$", ".", "a", "\n">> }

----------------------------------------------------------------------------
(* builders.py: the pattern _JSONPATH and the two parser methods *)

RECURSIVE SkipWhile(_, _, _)
\* the greedy repetition cls* from position k: the first position not in cls
SkipWhile(s, k, cls) ==
    IF k <= Len(s) /\ s[k] \in cls THEN SkipWhile(s, k + 1, cls) ELSE k

\* (\.[a-zA-Z]\w*|\[\d+\]) at position k: the position after it, 0 = no match
SegmentEnd(s, k) ==
    IF k + 1 <= Len(s) /\ s[k] = "." /\ s[k + 1] \in Alpha
    THEN SkipWhile(s, k + 2, Word)
    ELSE IF k + 1 <= Len(s) /\ s[k] = "[" /\ s[k + 1] \in Digit
    THEN LET j == SkipWhile(s, k + 2, Digit)
         IN  IF j <= Len(s) /\ s[j] = "]" THEN j + 1 ELSE 0
    ELSE 0

\* Python's "$" (no MULTILINE): the end of the string, or just before a
\* line feed that ends the string.
EndAnchor(s, k) ==
    \/ k = Len(s) + 1
    \/ k = Len(s) /\ s[k] = "\n"

RECURSIVE WalkSegments(_, _, _)
\* Segments from position k on; prev is where the latest segment started.
\* The result is where the last segment of a full match starts and ends.
WalkSegments(s, k, prev) ==
    IF EndAnchor(s, k)
    THEN [ok |-> prev > 0, start |-> prev, end |-> k]
    ELSE LET e == SegmentEnd(s, k)
         IN  IF e = 0 THEN [ok |-> FALSE, start |-> 0, end |-> 0]
             ELSE WalkSegments(s, e, k)

\* _JSONPATH.match(s): ok, and the groups head and tail
JSONPATH_match(s) ==
    IF Len(s) >= 1 /\ s[1] = "$"
    THEN LET w == WalkSegments(s, 2, 0)
         IN  IF w.ok
             THEN [ok |-> TRUE,
                   head |-> SubSeq(s, 1, w.start - 1),
                   tail |-> SubSeq(s, w.start, w.end - 1)]
             ELSE [ok |-> FALSE, head |-> <<>>, tail |-> <<>>]
    ELSE [ok |-> FALSE, head |-> <<>>, tail |-> <<>>]

\* _get_parent_jsonpath: ok = FALSE stands for InvalidJSONPathException
GetParentJsonpath(child) ==
    LET m == JSONPATH_match(child)
    IN  [ok |-> m.ok, path |-> m.head]

\* _get_child_key_in_parent: tail[1:-1] for an index, tail[1:] for a field
GetChildKeyInParent(child) ==
    LET m == JSONPATH_match(child)
    IN  IF ~m.ok THEN [ok |-> FALSE, key |-> <<>>]
        ELSE IF m.tail[Len(m.tail)] = "]"
        THEN [ok |-> TRUE, key |-> SubSeq(m.tail, 2, Len(m.tail) - 1)]
        ELSE [ok |-> TRUE, key |-> SubSeq(m.tail, 2, Len(m.tail))]

----------------------------------------------------------------------------
(* _nodes.py: node objects, and InternalNode.add_child *)

NoError == "none"
InvalidJSONPath == "InvalidJSONPathException"
DuplicateNodeAddition == "DuplicateNodeAdditionException"
MissingArrayIndex == "MissingArrayIndexException"
NoneValuesAccessed == "NoneValuesAccessedException"
KeyError == "KeyError"

\* Node.__init__ / InternalNode.__init__
NewNode(kind, jsonpath) ==
    [kind |-> kind, jsonpath |-> jsonpath, children |-> <<>>,
     last_checked_row |-> NoRow, intersected_last_time |-> FALSE]

IsInternal(n) == n.kind \in {"Object", "Array"}

ChildKeys(n) == { n.children[k].key : k \in 1..Len(n.children) }

\* self.children[key]
ChildAt(n, key) ==
    LET k == CHOOSE k \in 1..Len(n.children) : n.children[k].key = key
    IN  n.children[k].node

\* dict item assignment: an existing key keeps its place and takes the new
\* value, a new key goes last
DictSet(d, key, val) ==
    IF \E k \in 1..Len(d) : d[k].key = key
    THEN [k \in 1..Len(d) |->
            IF d[k].key = key THEN [key |-> key, node |-> val] ELSE d[k]]
    ELSE Append(d, [key |-> key, node |-> val])

\* add_child without its guard
AddChildUnguarded(h, parent, key, child) ==
    [err |-> FALSE,
     h |-> [h EXCEPT ![parent].children = DictSet(@, key, child)]]

\* InternalNode.add_child on heap h: err stands for
\* DuplicateNodeAdditionException
AddChild(h, parent, key, child) ==
    IF key \in ChildKeys(h[parent])
    THEN [err |-> TRUE, h |-> h]
    ELSE [err |-> FALSE,
          h |-> [h EXCEPT ![parent].children = DictSet(@, key, child)]]

----------------------------------------------------------------------------
(* builders.py: tree construction *)

\* _create_internal_node: the variant follows the child path's last character
CreateInternalNode(self_jsonpath, child_jsonpath) ==
    IF child_jsonpath[Len(child_jsonpath)] = "]"
    THEN NewNode("Array", self_jsonpath)
    ELSE NewNode("Object", self_jsonpath)

\* The builder's mutable state while _get_model runs.
BuilderState(h, reg, err) == [nodes |-> h, internal_nodes |-> reg, err |-> err]

\* _join_nodes without the registration of an internal child
RegisterChildForgotten(reg, h, child) == reg

\* _join_nodes: if isinstance(child_node, InternalNode):
\*     self._internal_nodes[child_node.jsonpath] = child_node
RegisterChild(reg, h, child) ==
    IF IsInternal(h[child]) THEN (h[child].jsonpath :> child) @@ reg ELSE reg

RECURSIVE JoinNodes(_, _, _)
\* _join_nodes(parent, child_node); child is a node id of B.nodes.  An
\* exception leaves what was already mutated and sets err.
JoinNodes(B, parent, child) ==
    IF B.err # NoError THEN B
    ELSE IF parent \in DOMAIN B.internal_nodes
    THEN LET k == GetChildKeyInParent(B.nodes[child].jsonpath)
         IN  IF ~k.ok THEN [B EXCEPT !.err = InvalidJSONPath]
             ELSE LET a == AddChild(B.nodes, B.internal_nodes[parent], k.key, child)
                  IN  IF a.err THEN [B EXCEPT !.err = DuplicateNodeAddition]
                      ELSE BuilderState(a.h,
                               RegisterChild(B.internal_nodes, B.nodes, child),
                               NoError)
    ELSE IF parent = ROOT
    THEN LET h1 == Append(B.nodes,
                          CreateInternalNode(parent, B.nodes[child].jsonpath))
         IN  JoinNodes(BuilderState(h1, (parent :> Len(h1)) @@ B.internal_nodes,
                                    NoError),
                       parent, child)
    ELSE LET h1 == Append(B.nodes,
                          CreateInternalNode(parent, B.nodes[child].jsonpath))
             new_parent == GetParentJsonpath(parent)
         IN  IF ~new_parent.ok
             THEN BuilderState(h1, B.internal_nodes, InvalidJSONPath)
             ELSE JoinNodes(JoinNodes(BuilderState(h1, B.internal_nodes, NoError),
                                      new_parent.path, Len(h1)),
                            parent, child)

\* One iteration of the loop of _get_model over the leaf path `leaf`.
GetModelIteration(B, leaf) ==
    LET h1 == Append(B.nodes, NewNode("Leaf", leaf))
        parent == GetParentJsonpath(leaf)
    IN  IF ~parent.ok
        THEN BuilderState(h1, B.internal_nodes, InvalidJSONPath)
        ELSE JoinNodes(BuilderState(h1, B.internal_nodes, NoError),
                       parent.path, Len(h1))

----------------------------------------------------------------------------
(* _nodes.py: evaluation against a row *)

\* A row is its reference (id) and the set of paths whose cell is not None.
Row(r) == [id |-> r, present |-> rows[r]]

\* Rendered values, all of one shape: a scalar is the cell it was read from
ScalarVal(row, path) == [t |-> "scalar", v |-> <<row.id, path>>]
NoneVal == [t |-> "None", v |-> <<>>]
MapVal(m) == [t |-> "map", v |-> m]
ListVal(l) == [t |-> "list", v |-> l]
Raised(kind, path, index) ==
    [t |-> "err", v |-> [kind |-> kind, path |-> path, index |-> index]]
IsRaised(val) == val.t = "err"

\* row[self.jsonpath]
RowGet(row, path) ==
    IF path \in row.present THEN ScalarVal(row, path) ELSE NoneVal

DigitChars == <<"0", "1", "2", "3", "4", "5", "6", "7", "8", "9">>

RECURSIVE Str(_)
\* str(n) for n >= 0
Str(n) ==
    IF n < 10 THEN <<DigitChars[n + 1]>>
    ELSE Str(n \div 10) \o <<DigitChars[(n % 10) + 1]>>

\* a hit for any row once the slot is filled
CacheHitAnyRow(n, row) == n.last_checked_row # NoRow

\* cached_intersects: self._last_checked_row is row
CacheHit(n, row) == n.last_checked_row = row.id

\* the row is remembered, the result is not
CacheStoreRowOnly(h, n, row, res) ==
    [h EXCEPT ![n].last_checked_row = row.id]

\* cached_intersects: self._intersected_last_time = intersects(self, row)
WriteResult(h, n, res) == [h EXCEPT ![n].intersected_last_time = res]

\* cached_intersects: self._last_checked_row = row
WriteRow(h, n, row) == [h EXCEPT ![n].last_checked_row = row.id]

\* cached_intersects: the two assignments after the computation, in order
CacheStore(h, n, row, res) == WriteRow(WriteResult(h, n, res), n, row)

\* a leaf that counts a None cell as present
LeafIntersectsAlways(n, row) == TRUE

\* LeafNode.intersects: row[self.jsonpath] is not None
LeafIntersects(n, row) == RowGet(row, n.jsonpath) # NoneVal

RECURSIVE CachedIntersects(_, _, _)
RECURSIVE AnyChild(_, _, _, _)

\* InternalNode.intersects: any(map(...)) over children.values(), lazily
AnyChild(h, n, row, k) ==
    IF k > Len(h[n].children) THEN [res |-> FALSE, h |-> h]
    ELSE LET c == CachedIntersects(h, h[n].children[k].node, row)
         IN  IF c.res THEN c ELSE AnyChild(c.h, n, row, k + 1)

\* Node.cached applied to intersects, called by one thread at a time
CachedIntersects(h, n, row) ==
    IF CacheHit(h[n], row)
    THEN [res |-> h[n].intersected_last_time, h |-> h]
    ELSE LET c == IF h[n].kind = "Leaf"
                  THEN [res |-> LeafIntersects(h[n], row), h |-> h]
                  ELSE AnyChild(h, n, row, 1)
             h2 == CacheStore(c.h, n, row, c.res)
         IN  [res |-> h2[n].intersected_last_time, h |-> h2]

\* the last missing index instead of the first
LastMissingIndex(n) ==
    LET missing == { k \in 0..(Len(n.children) - 1) : Str(k) \notin ChildKeys(n) }
    IN  IF missing = {} THEN -1
        ELSE CHOOSE k \in missing : \A j \in missing : k >= j

\* ArrayNode.get_value: the first n in range(0, length) with str(n) not a key
\* (-1 = none)
FirstMissingIndex(n) ==
    LET missing == { k \in 0..(Len(n.children) - 1) : Str(k) \notin ChildKeys(n) }
    IN  IF missing = {} THEN -1
        ELSE CHOOSE k \in missing : \A j \in missing : k <= j

\* protected_get_value: the message names self.jsonpath
NoneValuesRaised(n) == Raised(NoneValuesAccessed, n.jsonpath, -1)

\* the k-th child in insertion order, whatever its key
ArrayChildByPosition(n, k) == n.children[k + 1].node

\* ArrayNode.get_value: self.children[str(n)]
ArrayChild(n, k) == ChildAt(n, Str(k))

RECURSIVE ProtectedGetValue(_, _, _)
RECURSIVE ObjectGetValue(_, _, _, _, _)
RECURSIVE ArrayGetValue(_, _, _, _, _)

\* ObjectNode.get_value: the dict comprehension from the k-th item on
ObjectGetValue(h, n, row, k, acc) ==
    IF k > Len(h[n].children) THEN [out |-> MapVal(acc), h |-> h]
    ELSE LET c == h[n].children[k]
             ci == CachedIntersects(h, c.node, row)
         IN  IF ~ci.res THEN ObjectGetValue(ci.h, n, row, k + 1, acc)
             ELSE LET g == ProtectedGetValue(ci.h, c.node, row)
                  IN  IF IsRaised(g.out) THEN g
                      ELSE ObjectGetValue(g.h, n, row, k + 1,
                                          (c.key :> g.out) @@ acc)

\* ArrayNode.get_value: the second loop from index k on
ArrayGetValue(h, n, row, k, acc) ==
    IF k >= Len(h[n].children) THEN [out |-> ListVal(acc), h |-> h]
    ELSE LET c == ArrayChild(h[n], k)
             ci == CachedIntersects(h, c, row)
         IN  IF ~ci.res THEN ArrayGetValue(ci.h, n, row, k + 1, acc)
             ELSE LET g == ProtectedGetValue(ci.h, c, row)
                  IN  IF IsRaised(g.out) THEN g
                      ELSE ArrayGetValue(g.h, n, row, k + 1, Append(acc, g.out))

\* Node.protected applied to get_value, for the three node classes
ProtectedGetValue(h, n, row) ==
    LET ci == CachedIntersects(h, n, row)
    IN  IF ~ci.res THEN [out |-> NoneValuesRaised(h[n]), h |-> ci.h]
        ELSE IF h[n].kind = "Leaf"
        THEN [out |-> RowGet(row, h[n].jsonpath), h |-> ci.h]
        ELSE IF h[n].kind = "Object"
        THEN ObjectGetValue(ci.h, n, row, 1, <<>>)
        ELSE IF FirstMissingIndex(h[n]) >= 0
        THEN [out |-> Raised(MissingArrayIndex, h[n].jsonpath,
                             FirstMissingIndex(h[n])),
              h |-> ci.h]
        ELSE ArrayGetValue(ci.h, n, row, 0, <<>>)

----------------------------------------------------------------------------
(* The state machine: construction, then sequential conversion of rows *)

EmptyRegistry == [p \in {} |-> NoNode]

RECURSIVE GetModelLoop(_, _, _)
\* _get_model's loop from the k-th leaf on; an exception ends it
GetModelLoop(B, paths, k) ==
    IF k > Len(paths) \/ B.err # NoError THEN B
    ELSE GetModelLoop(GetModelIteration(B, paths[k]), paths, k + 1)

\* JsonifyFunctionBuilder(paths): the heap, the exception if any, and _model
GetModel(paths) ==
    LET B == GetModelLoop(BuilderState(<<>>, EmptyRegistry, NoError), paths, 1)
    IN  IF B.err # NoError
        THEN [err |-> B.err, nodes |-> B.nodes, model |-> NoNode]
        ELSE IF ROOT \notin DOMAIN B.internal_nodes
        THEN [err |-> KeyError, nodes |-> B.nodes, model |-> NoNode]
        ELSE [err |-> NoError, nodes |-> B.nodes,
              model |-> B.internal_nodes[ROOT]]
NoResult == [t |-> "none", v |-> <<>>]
NoThreads == <<>>

\* JsonifyFunctionBuilder.__init__ up to the call of _get_model
Init ==
    /\ \E n \in 0..MaxPaths : leaf_jsonpaths \in [1..n -> PathPool]
    /\ pc = "get_model"
    /\ i = 0
    /\ nodes = <<>>
    /\ internal_nodes = EmptyRegistry
    /\ model = NoNode
    /\ error = NoError
    /\ rows = <<>>
    /\ last_row = NoRow
    /\ result = NoResult
    /\ prev_row = NoRow
    /\ prev_result = NoResult
    /\ threads = NoThreads
    /\ slot_writer = <<>>

\* _get_model: the body of the for loop, for the next leaf
GetModelStep ==
    /\ pc = "get_model"
    /\ i < Len(leaf_jsonpaths)
    /\ LET B == GetModelIteration(BuilderState(nodes, internal_nodes, NoError),
                                  leaf_jsonpaths[i + 1])
       IN  /\ nodes' = B.nodes
           /\ internal_nodes' = B.internal_nodes
           /\ error' = B.err
           /\ pc' = IF B.err = NoError THEN "get_model" ELSE "failed"
    /\ i' = i + 1
    /\ UNCHANGED <<leaf_jsonpaths, model, rows, last_row, result, prev_row,
                   prev_result, threads,
                   slot_writer>>

\* _get_model: return self._internal_nodes["$"], stored as self._model
GetModelReturn ==
    /\ pc = "get_model"
    /\ i = Len(leaf_jsonpaths)
    /\ IF ROOT \in DOMAIN internal_nodes
       THEN /\ model' = internal_nodes[ROOT]
            /\ pc' = "built"
            /\ error' = error
       ELSE /\ model' = model
            /\ pc' = "failed"
            /\ error' = KeyError
    /\ UNCHANGED <<leaf_jsonpaths, i, nodes, internal_nodes, rows, last_row,
                   result, prev_row, prev_result, threads,
                   slot_writer>>

RECURSIVE LeavesUnder(_, _)
\* the leaf paths at or beneath node n of heap h
LeavesUnder(h, n) ==
    IF h[n].kind = "Leaf" THEN {h[n].jsonpath}
    ELSE UNION { LeavesUnder(h, h[n].children[k].node) : k \in 1..Len(h[n].children) }

InternalIds(h) == { n \in 1..Len(h) : IsInternal(h[n]) }

\* the strings handed to the builder
Supplied == { leaf_jsonpaths[k] : k \in 1..Len(leaf_jsonpaths) }

\* The leaf paths of the tree: the cells a row has
LeafPaths == { nodes[n].jsonpath : n \in { k \in 1..Len(nodes) : nodes[k].kind = "Leaf" } }

\* The caller makes a row: a new reference, with any cells present
CreateRow ==
    /\ pc = "built"
    /\ Len(rows) < NumRows
    /\ \E present \in SUBSET LeafPaths : rows' = Append(rows, present)
    /\ UNCHANGED <<leaf_jsonpaths, pc, i, nodes, internal_nodes, model, error,
                   last_row, result, prev_row, prev_result, threads,
                   slot_writer>>

\* jsonifier(row): self._model.get_value(row), one call at a time
Jsonifier ==
    /\ pc = "built"
    /\ \E r \in DOMAIN rows :
          LET g == ProtectedGetValue(nodes, model, Row(r))
          IN  /\ nodes' = g.h
              /\ result' = g.out
              /\ last_row' = r
    /\ prev_row' = last_row
    /\ prev_result' = result
    /\ UNCHANGED <<leaf_jsonpaths, pc, i, internal_nodes, model, error, rows,
                   threads, slot_writer>>

Next == GetModelStep \/ GetModelReturn \/ CreateRow \/ Jsonifier

Spec == Init /\ [][Next]_vars

----------------------------------------------------------------------------
(* Two threads calling the converter of one tree, each with a row of its  *)
(* own.  A step holds at most one access to a node's cache slot; the tree *)
(* and the rows do not change.                                             *)

MaxConcPaths == 1   \* longest leaf-path list of the shared tree

Threads == {1, 2}

\* the leaves of the shared tree: fields, a nested field, an array index
ConcPool ==
    { <<"$", ".", "a">>,
      <<"$", ".", "a", ".", "b">>,
      <<"$", ".", "b", "[", "0", "]">> }

BoolVal(b) == [t |-> "bool", v |-> b]

\* a call in progress: the function, self, where it stands, and its locals
Frame(fn, node, at, k, acc) ==
    [fn |-> fn, node |-> node, at |-> at, k |-> k, acc |-> acc]

NewThread(r, root) ==
    [row |-> r,
     stack |-> <<Frame("protected", root, "call", 0, <<>>)>>,
     ret |-> NoResult,
     result |-> NoResult,
     foreign |-> FALSE]

TopOf(th) == th.stack[Len(th.stack)]
Top(t) == TopOf(threads[t])
At(t, at) == threads[t].stack # <<>> /\ Top(t).fn = "cached" /\ Top(t).at = at

\* the top frame goes on as f
SetTop(th, f) == [th EXCEPT !.stack[Len(th.stack)] = f]
\* the top frame goes on as f and calls g
CallFrom(th, f, g) == [th EXCEPT !.stack = Append(SetTop(th, f).stack, g)]
\* the top frame returns v; the bottom frame's return is the call's result
ReturnVal(th, v) ==
    [th EXCEPT !.stack = SubSeq(@, 1, Len(@) - 1),
               !.ret = v,
               !.result = IF Len(th.stack) = 1 THEN v ELSE @]
\* an exception: nothing catches it
RaiseExc(th, e) == [th EXCEPT !.stack = <<>>, !.result = e]

\* a guard that lets every call through
NeverRaises(present) == FALSE

\* protected_get_value: if not self.intersects(row): raise
ProtectedRaises(present) == ~present

\* protected_get_value: the call of self.intersects(row)
ProtectedCall(th) ==
    CallFrom(th, [TopOf(th) EXCEPT !.at = "guard"],
             Frame("cached", TopOf(th).node, "check", 0, <<>>))

\* protected_get_value after intersects returned: raise, or enter get_value
\* (LeafNode: the row's cell; ArrayNode: the first loop)
ProtectedGuard(th) ==
    LET n == TopOf(th).node
    IN  IF ProtectedRaises(th.ret.v)
        THEN RaiseExc(th, NoneValuesRaised(nodes[n]))
        ELSE IF nodes[n].kind = "Leaf"
        THEN ReturnVal(th, RowGet(Row(th.row), nodes[n].jsonpath))
        ELSE IF nodes[n].kind = "Object"
        THEN SetTop(th, Frame("items", n, "filter", 1, <<>>))
        ELSE IF FirstMissingIndex(nodes[n]) >= 0
        THEN RaiseExc(th, Raised(MissingArrayIndex, nodes[n].jsonpath,
                                 FirstMissingIndex(nodes[n])))
        ELSE SetTop(th, Frame("items", n, "filter", 0, <<>>))

\* InternalNode.intersects: any(...) asks the next child, stops at the
\* first True, and is False when the children are exhausted
AnyStep(th) ==
    LET f == TopOf(th)
        kids == nodes[f.node].children
        k == IF f.at = "next" THEN f.k ELSE f.k + 1
    IN  IF f.at = "asked" /\ th.ret.v THEN ReturnVal(th, BoolVal(TRUE))
        ELSE IF k > Len(kids) THEN ReturnVal(th, BoolVal(FALSE))
        ELSE CallFrom(th, [f EXCEPT !.at = "asked", !.k = k],
                      Frame("cached", kids[k].node, "check", 0, <<>>))

\* ObjectNode.get_value's comprehension and ArrayNode.get_value's second
\* loop: for the next child, intersects(row), then get_value(row) if it
\* was True; after the last child the mapping or the list is returned
ItemsStep(th) ==
    LET f == TopOf(th)
        n == nodes[f.node]
        isObject == n.kind = "Object"
        done == IF isObject THEN f.k > Len(n.children) ELSE f.k >= Len(n.children)
        child == IF isObject THEN n.children[f.k].node ELSE ArrayChild(n, f.k)
    IN  IF f.at = "filter"
        THEN IF done
             THEN ReturnVal(th, IF isObject THEN MapVal(f.acc) ELSE ListVal(f.acc))
             ELSE CallFrom(th, [f EXCEPT !.at = "filtered"],
                           Frame("cached", child, "check", 0, <<>>))
        ELSE IF f.at = "filtered"
        THEN IF th.ret.v
             THEN CallFrom(th, [f EXCEPT !.at = "value"],
                           Frame("protected", child, "call", 0, <<>>))
             ELSE SetTop(th, [f EXCEPT !.at = "filter", !.k = f.k + 1])
        ELSE SetTop(th, [f EXCEPT !.at = "filter", !.k = f.k + 1,
                 !.acc = IF isObject THEN (n.children[f.k].key :> th.ret) @@ f.acc
                         ELSE Append(f.acc, th.ret)])

RECURSIVE RunLocal(_)
\* The thread's own code up to its next access to a cache slot (the next
\* statement of cached_intersects) or to the end of its call: these steps
\* read the tree's structure and the thread's row only.
RunLocal(th) ==
    IF th.stack = <<>> \/ TopOf(th).fn = "cached" THEN th
    ELSE IF TopOf(th).fn = "protected"
    THEN RunLocal(IF TopOf(th).at = "call" THEN ProtectedCall(th)
                                           ELSE ProtectedGuard(th))
    ELSE IF TopOf(th).fn = "any" THEN RunLocal(AnyStep(th))
    ELSE RunLocal(ItemsStep(th))

\* cached_intersects: if self._last_checked_row is row; on a miss the
\* computation starts (LeafNode.intersects is one lookup in the row)
CachedCheck(t) ==
    /\ At(t, "check")
    /\ LET th == threads[t]
           n == Top(t).node
       IN  threads' = [threads EXCEPT ![t] =
             IF CacheHit(nodes[n], Row(th.row))
             THEN SetTop(th, [Top(t) EXCEPT !.at = "return"])
             ELSE IF nodes[n].kind = "Leaf"
             THEN [SetTop(th, [Top(t) EXCEPT !.at = "computed"])
                     EXCEPT !.ret = BoolVal(LeafIntersects(nodes[n], Row(th.row)))]
             ELSE RunLocal(CallFrom(th, [Top(t) EXCEPT !.at = "computed"],
                                    Frame("any", n, "next", 1, <<>>)))]
    /\ UNCHANGED <<leaf_jsonpaths, pc, i, nodes, internal_nodes, model, error,
                   rows, last_row, result, prev_row, prev_result, slot_writer>>

\* cached_intersects: self._intersected_last_time = intersects(self, row)
CachedStoreResult(t) ==
    /\ At(t, "computed")
    /\ nodes' = WriteResult(nodes, Top(t).node, threads[t].ret.v)
    /\ slot_writer' = [slot_writer EXCEPT ![Top(t).node] = t]
    /\ threads' = [threads EXCEPT ![t] = SetTop(@, [Top(t) EXCEPT !.at = "store_row"])]
    /\ UNCHANGED <<leaf_jsonpaths, pc, i, internal_nodes, model, error,
                   rows, last_row, result, prev_row, prev_result>>

\* cached_intersects: self._last_checked_row = row
CachedStoreRow(t) ==
    /\ At(t, "store_row")
    /\ nodes' = WriteRow(nodes, Top(t).node, Row(threads[t].row))
    /\ threads' = [threads EXCEPT ![t] = SetTop(@, [Top(t) EXCEPT !.at = "return"])]
    /\ UNCHANGED <<leaf_jsonpaths, pc, i, internal_nodes, model, error,
                   rows, last_row, result, prev_row, prev_result, slot_writer>>

\* cached_intersects: return self._intersected_last_time, and the caller's
\* code that follows.  foreign records that the value read was assigned by
\* another thread and is not the presence of this node in the caller's row.
CachedReturn(t) ==
    /\ At(t, "return")
    /\ LET th == threads[t]
           n == Top(t).node
           v == nodes[n].intersected_last_time
       IN  threads' = [threads EXCEPT ![t] =
             RunLocal([ReturnVal(th, BoolVal(v)) EXCEPT !.foreign =
                 @ \/ (slot_writer[n] # t
                       /\ v # (LeavesUnder(nodes, n) \cap rows[th.row] # {}))])]
    /\ UNCHANGED <<leaf_jsonpaths, pc, i, nodes, internal_nodes, model, error,
                   rows, last_row, result, prev_row, prev_result, slot_writer>>

\* A built tree, two rows, and each thread inside jsonifier(row), at its
\* first cache access.
ConcInit ==
    /\ \E n \in 1..MaxConcPaths : leaf_jsonpaths \in [1..n -> ConcPool]
    /\ GetModel(leaf_jsonpaths).err = NoError
    /\ pc = "built"
    /\ i = Len(leaf_jsonpaths)
    /\ nodes = GetModel(leaf_jsonpaths).nodes
    /\ model = GetModel(leaf_jsonpaths).model
    /\ internal_nodes = [p \in { nodes[n].jsonpath : n \in InternalIds(nodes) } |->
                           CHOOSE n \in InternalIds(nodes) : nodes[n].jsonpath = p]
    /\ error = NoError
    /\ rows \in [Threads -> SUBSET Supplied]
    /\ last_row = NoRow
    /\ result = NoResult
    /\ prev_row = NoRow
    /\ prev_result = NoResult
    /\ threads = [t \in Threads |-> RunLocal(NewThread(t, model))]
    /\ slot_writer = [n \in 1..Len(nodes) |-> 0]

ConcNext ==
    \E t \in Threads :
        \/ CachedCheck(t)
        \/ CachedStoreResult(t)
        \/ CachedStoreRow(t)
        \/ CachedReturn(t)

SpecConc == ConcInit /\ [][ConcNext]_vars

----------------------------------------------------------------------------
(* What the properties speak of *)

Built == pc = "built"
Ended == pc \in {"built", "failed"}
Called == Built /\ last_row # NoRow

ObjectNodes == { n \in 1..Len(nodes) : nodes[n].kind = "Object" }
ArrayNodes == { n \in 1..Len(nodes) : nodes[n].kind = "Array" }

\* node n has at least one non-None leaf beneath it in the row
PresentIn(h, n, row) == LeavesUnder(h, n) \cap row.present # {}

\* node.get_value(row) if it were called now
Render(n, r) == ProtectedGetValue(nodes, n, Row(r)).out

RECURSIVE NoNoneIn(_)
\* the absent marker occurs nowhere in a rendered value
NoNoneIn(val) ==
    IF val.t = "None" THEN FALSE
    ELSE IF val.t = "map" THEN \A k \in DOMAIN val.v : NoNoneIn(val.v[k])
    ELSE IF val.t = "list" THEN \A k \in 1..Len(val.v) : NoNoneIn(val.v[k])
    ELSE TRUE

\* positions (in insertion order) of the children of n present in row r
PresentPositions(n, r) ==
    { k \in 1..Len(nodes[n].children) :
        PresentIn(nodes, nodes[n].children[k].node, Row(r)) }

\* those whose own render raises
RaisingPositions(n, r) ==
    { k \in PresentPositions(n, r) : IsRaised(Render(nodes[n].children[k].node, r)) }

Least(S) == CHOOSE k \in S : \A j \in S : k <= j

\* the mapping C1 describes: the present children's keys, each with the
\* child's own render
IsPresentChildrenMap(val, n, r) ==
    /\ val.t = "map"
    /\ DOMAIN val.v = { nodes[n].children[k].key : k \in PresentPositions(n, r) }
    /\ \A k \in PresentPositions(n, r) :
          val.v[nodes[n].children[k].key] = Render(nodes[n].children[k].node, r)
    /\ NoNoneIn(val)

\* C1 as stated: on a present object, get_value returns the mapping of
\* exactly the present children, and None appears nowhere in it.
C1_AsStated ==
    Built => \A n \in ObjectNodes : \A r \in DOMAIN rows :
        PresentIn(nodes, n, Row(r)) => IsPresentChildrenMap(Render(n, r), n, r)

\* C1 (amended): on a present object, get_value returns the mapping of
\* exactly the present children (each with its own render, None nowhere)
\* when every present child renders; when a present child's render raises
\* (MissingArrayIndexException from a gapped array beneath it), get_value
\* raises what the first such child in insertion order raises.
C1_PresentChildrenOnly ==
    Built => \A n \in ObjectNodes : \A r \in DOMAIN rows :
        PresentIn(nodes, n, Row(r)) =>
            IF RaisingPositions(n, r) = {}
            THEN IsPresentChildrenMap(Render(n, r), n, r)
            ELSE /\ Render(n, r) =
                      Render(nodes[n].children[Least(RaisingPositions(n, r))].node, r)
                 /\ Render(n, r).v.kind = MissingArrayIndex

\* C1's case: the converter returned a mapping for a row in which one child
\* of the root object is present and another has every leaf absent.
C1_Witness ==
    /\ Called
    /\ nodes[model].kind = "Object"
    /\ result.t = "map"
    /\ PresentPositions(model, last_row) # {}
    /\ PresentPositions(model, last_row) # 1..Len(nodes[model].children)
    /\ \E k \in 1..Len(nodes[model].children) :
          /\ nodes[nodes[model].children[k].node].kind # "Leaf"
          /\ k \notin PresentPositions(model, last_row)

----------------------------------------------------------------------------

\* the child keys are exactly "0".."N-1"
KeysContiguous(n) ==
    ChildKeys(nodes[n]) = { Str(k) : k \in 0..(Len(nodes[n].children) - 1) }

\* indices of the children of array n present in row r
PresentIndices(n, r) ==
    { k \in 0..(Len(nodes[n].children) - 1) :
        PresentIn(nodes, ChildAt(nodes[n], Str(k)), Row(r)) }

RaisingIndices(n, r) ==
    { k \in PresentIndices(n, r) : IsRaised(Render(ChildAt(nodes[n], Str(k)), r)) }

RECURSIVE Ascending(_)
\* a finite set of integers as an increasing sequence
Ascending(S) ==
    IF S = {} THEN <<>> ELSE <<Least(S)>> \o Ascending(S \ {Least(S)})

\* the sequence C2 describes
IsPresentChildrenList(val, n, r) ==
    LET idx == Ascending(PresentIndices(n, r))
    IN  /\ val.t = "list"
        /\ Len(val.v) = Cardinality(PresentIndices(n, r))
        /\ \A j \in 1..Len(idx) :
              val.v[j] = Render(ChildAt(nodes[n], Str(idx[j])), r)
        /\ NoNoneIn(val)

\* C2 as stated: an array with keys "0".."N-1" and a present child renders
\* the present children in index order, absent ones skipped.
C2_AsStated ==
    Built => \A n \in ArrayNodes : \A r \in DOMAIN rows :
        (KeysContiguous(n) /\ PresentIn(nodes, n, Row(r)))
            => IsPresentChildrenList(Render(n, r), n, r)

\* C2 (amended): an array with keys "0".."N-1" and a present child renders
\* the present children in increasing index order, whatever the insertion
\* order, absent ones skipped with no placeholder, when every present child
\* renders; when a present child's render raises (a gapped array beneath
\* it), get_value raises what the first such child in index order raises.
C2_IndexOrderCompaction ==
    Built => \A n \in ArrayNodes : \A r \in DOMAIN rows :
        (KeysContiguous(n) /\ PresentIn(nodes, n, Row(r))) =>
            IF RaisingIndices(n, r) = {}
            THEN IsPresentChildrenList(Render(n, r), n, r)
            ELSE /\ Render(n, r) =
                      Render(ChildAt(nodes[n], Str(Least(RaisingIndices(n, r)))), r)
                 /\ Render(n, r).v.kind = MissingArrayIndex

\* C2's case: three children inserted out of index order, indices 0 and 2
\* present and 1 absent, rendered by the converter as two values.
C2_Witness ==
    /\ Called
    /\ result.t = "map"
    /\ \E n \in ArrayNodes :
          /\ KeysContiguous(n)
          /\ Len(nodes[n].children) = 3
          /\ nodes[n].children[1].key # Str(0)
          /\ PresentIndices(n, last_row) = {0, 2}
          /\ \E key \in DOMAIN result.v :
                /\ result.v[key].t = "list"
                /\ Len(result.v[key].v) = 2
                /\ result.v[key] = Render(n, last_row)

----------------------------------------------------------------------------

\* C3: a converter call raises NoneValuesAccessedException exactly when
\* every leaf of the tree is None in the row, and then it is the root's
\* (path $); with a leaf present no get_value raises it.
C3_NoneValuesIffAllAbsent ==
    Called =>
        /\ (IsRaised(result) /\ result.v.kind = NoneValuesAccessed)
              <=> (LeafPaths \cap rows[last_row] = {})
        /\ (LeafPaths \cap rows[last_row] = {})
              => result = Raised(NoneValuesAccessed, ROOT, -1)

\* C3's case: a call on an all-None row after a call on a row with a leaf
\* present, which filled the caches.
C3_Witness ==
    /\ Called
    /\ prev_row # NoRow
    /\ prev_row # last_row
    /\ ~IsRaised(prev_result)
    /\ rows[last_row] = {}
    /\ result = Raised(NoneValuesAccessed, ROOT, -1)

----------------------------------------------------------------------------

\* the smallest n in 0..N-1 with no child keyed str(n)
SmallestAbsentIndex(n) ==
    Least({ k \in 0..(Len(nodes[n].children) - 1) : Str(k) \notin ChildKeys(nodes[n]) })

GappedArrays == { n \in ArrayNodes : ~KeysContiguous(n) }

\* C4: construction accepts index leaves with a gap ($.a[0], $.a[2]); on an
\* array whose keys are not exactly "0".."N-1", get_value raises
\* MissingArrayIndexException for every row with a child present, naming
\* the array's path and the smallest missing index.
C4_GapRaisesMissingIndex ==
    /\ leaf_jsonpaths = << <<"$", ".", "a", "[", "0", "]">>,
                           <<"$", ".", "a", "[", "2", "]">> >> => pc # "failed"
    /\ Built => \A n \in GappedArrays : \A r \in DOMAIN rows :
          PresentIn(nodes, n, Row(r)) =>
              Render(n, r) = Raised(MissingArrayIndex, nodes[n].jsonpath,
                                    SmallestAbsentIndex(n))

\* C4's case: children {0, 2}, index 2 present in the row, and the
\* converter's call raised naming index 1.
C4_Witness ==
    /\ Called
    /\ \E n \in GappedArrays :
          /\ ChildKeys(nodes[n]) = {Str(0), Str(2)}
          /\ nodes[ChildAt(nodes[n], Str(2))].jsonpath \in rows[last_row]
          /\ result = Raised(MissingArrayIndex, nodes[n].jsonpath, 1)

----------------------------------------------------------------------------

RECURSIVE SegmentsOnly(_, _)
\* s from position k on is a run of grammar segments and nothing else
SegmentsOnly(s, k) ==
    IF k = Len(s) + 1 THEN TRUE
    ELSE SegmentEnd(s, k) # 0 /\ SegmentsOnly(s, SegmentEnd(s, k))

\* a leaf path of the grammar: the root marker and at least one segment
GrammarValid(s) == Len(s) > 1 /\ s[1] = "$" /\ SegmentsOnly(s, 2)

AllValid == \A p \in Supplied : GrammarValid(p)
NoDuplicates == Cardinality(Supplied) = Len(leaf_jsonpaths)

\* p addresses an ancestor of q: q is p followed by further segments
IsAncestor(p, q) ==
    /\ Len(p) < Len(q)
    /\ SubSeq(q, 1, Len(p)) = p
    /\ q[Len(p) + 1] \in {".", "["}

NoLeafIsAncestor == \A p \in Supplied : \A q \in Supplied : ~IsAncestor(p, q)

RootIsInternal ==
    /\ pc = "built"
    /\ error = NoError
    /\ model = internal_nodes[ROOT]
    /\ nodes[model].jsonpath = ROOT
    /\ IsInternal(nodes[model])
    /\ Cardinality({ n \in 1..Len(nodes) : nodes[n].jsonpath = ROOT }) = 1

\* C5 as stated: grammar-valid leaf paths without duplicates always build.
C5_AsStated ==
    (Ended /\ AllValid /\ NoDuplicates) => RootIsInternal

\* C5 (amended): a non-empty list of grammar-valid leaf paths, no two equal
\* and none addressing an ancestor of another, builds in any order without
\* error, and the model is the one node at $, an ObjectNode or ArrayNode.
\* Of the lists as stated, the empty one ends in KeyError and one with a
\* leaf that addresses an ancestor of another in
\* DuplicateNodeAdditionException.
C5_ValidPathsBuild ==
    (Ended /\ AllValid /\ NoDuplicates) =>
        IF leaf_jsonpaths = <<>> THEN pc = "failed" /\ error = KeyError
        ELSE IF ~NoLeafIsAncestor
        THEN pc = "failed" /\ error = DuplicateNodeAddition
        ELSE RootIsInternal

\* C5's case: three leaves, two of them under one array created on demand,
\* built with an Object root.
C5_Witness ==
    /\ RootIsInternal
    /\ Len(leaf_jsonpaths) = 3
    /\ AllValid /\ NoDuplicates /\ NoLeafIsAncestor
    /\ \E n \in ArrayNodes : Len(nodes[n].children) = 2

----------------------------------------------------------------------------

\* C6 as stated: a supplied string that violates the grammar makes
\* construction fail with InvalidJSONPathException and nothing else.
C6_AsStated ==
    (Ended /\ ~AllValid) => (pc = "failed" /\ error = InvalidJSONPath)

----------------------------------------------------------------------------

IsPrefixOf(a, b) == Len(a) <= Len(b) /\ SubSeq(b, 1, Len(a)) = a

OneChildPerKey ==
    \A n \in InternalIds(nodes) : Cardinality(ChildKeys(nodes[n])) = Len(nodes[n].children)

\* the children a node already has stay as they are, in every step; a step
\* that raises DuplicateNodeAdditionException changes no mapping at all
ChildrenKept ==
    /\ \A n \in InternalIds(nodes) : IsPrefixOf(nodes[n].children, nodes'[n].children)
    /\ (error = NoError /\ error' = DuplicateNodeAddition)
          => \A n \in InternalIds(nodes) : nodes'[n].children = nodes[n].children

\* C7: throughout construction an internal node has at most one child per
\* key and never loses or replaces one; add_child on an occupied key raises
\* DuplicateNodeAdditionException and changes nothing, so a list of valid
\* leaf paths with one path twice ends in DuplicateNodeAdditionException.
C7_OneChildPerKey ==
    /\ [](OneChildPerKey
          /\ ((Ended /\ AllValid /\ ~NoDuplicates)
                 => (pc = "failed" /\ error = DuplicateNodeAddition)))
    /\ [][ChildrenKept]_vars

\* C7's case: the same leaf twice, refused at its second attachment with
\* the first one still in place.
C7_Witness ==
    /\ pc = "failed"
    /\ error = DuplicateNodeAddition
    /\ AllValid /\ ~NoDuplicates
    /\ Len(leaf_jsonpaths) = 2
    /\ Len(nodes[internal_nodes[ROOT]].children) = 1
    /\ nodes[internal_nodes[ROOT]].children[1].node = 1

----------------------------------------------------------------------------

Reorderings(n) == { f \in [1..n -> 1..n] : \A a, b \in 1..n : a # b => f[a] # f[b] }

Permuted(paths, f) == [k \in 1..Len(paths) |-> paths[f[k]]]

\* path -> <<variant, child key set>> for every node of a heap
Shape(h) ==
    { <<h[n].jsonpath, h[n].kind, ChildKeys(h[n])>> : n \in 1..Len(h) }

\* two constructions agree: the outcome, the shape, and every row's render
SameConverter(a, b) ==
    /\ a.err = b.err
    /\ a.err = NoError =>
          /\ Shape(a.nodes) = Shape(b.nodes)
          /\ \A present \in SUBSET LeavesUnder(a.nodes, a.model) :
                ProtectedGetValue(a.nodes, a.model, [id |-> 1, present |-> present]).out
                  = ProtectedGetValue(b.nodes, b.model, [id |-> 1, present |-> present]).out

\* C8 as stated: any reordering of the same valid leaf paths gives the same
\* outcome, the same variant and key set at every path, and the same
\* result for every row.
C8_AsStated ==
    (Ended /\ AllValid) =>
        \A f \in Reorderings(Len(leaf_jsonpaths)) :
            SameConverter(GetModel(leaf_jsonpaths),
                          GetModel(Permuted(leaf_jsonpaths, f)))

----------------------------------------------------------------------------

\* the converter of a tree built anew from the same leaf paths
FreshRender(r) ==
    LET b == GetModel(leaf_jsonpaths)
    IN  ProtectedGetValue(b.nodes, b.model, Row(r)).out

\* C9: whatever rows were converted before, a sequential call returns (or
\* raises) what a freshly built tree does for that row; a repeat with the
\* same row reference gives the same output.
C9_CacheHistoryUnobservable ==
    Called =>
        /\ result = FreshRender(last_row)
        /\ prev_row = last_row => prev_result = result

\* C9's cases: the same reference twice in a row, after a call with another
\* row whose cached check is still in the tree.
C9_Witness ==
    /\ Called
    /\ prev_row = last_row
    /\ result = prev_result
    /\ \E n \in 1..Len(nodes) : nodes[n].last_checked_row \notin {NoRow, last_row}

----------------------------------------------------------------------------

Finished(t) == threads[t].stack = <<>>

\* the thread's call ended otherwise than a sequential call with its row
Corrupted(t) == Finished(t) /\ threads[t].result # FreshRender(threads[t].row)

\* C10: with two threads in the converter of one tree, each with its own
\* row, a call's output or error differs from the sequential one only if a
\* presence check returned to that thread a value the other thread had
\* assigned, wrong for its own row; a call that was handed no such value
\* ends as the sequential call does.  (The state in which a call does
\* differ is C10_Witness.)
C10_OnlyForeignResultCorrupts ==
    \A t \in DOMAIN threads :
        /\ (Finished(t) /\ ~threads[t].foreign) => ~Corrupted(t)
        /\ Corrupted(t) => threads[t].foreign

\* C10's case: a thread whose presence check returned the other thread's
\* result finished with an output or error that is not the sequential one
\* of its own row.
C10_Witness ==
    \E t \in DOMAIN threads :
        /\ Corrupted(t)
        /\ threads[t].foreign
        /\ rows[1] # rows[2]

=============================================================================
